---- MODULE Spec2Model ----
(***************************************************************************)
(* Model of azurelinuxagent/ga/periodic_operation.py (PeriodicOperation)   *)
(* and azurelinuxagent/ga/log_upload.py (LogUploadHandler).                *)
(*                                                                         *)
(* periodic_operation.py carries unresolved merge markers; the model       *)
(* follows the release-2.2.53 side (_next_run_time, next_run_time(),       *)
(* sleep_until_next_operation), which is the side that defines every       *)
(* symbol used here.                                                       *)
(*                                                                         *)
(* Time is counted in ticks of 20 minutes.  datetime.datetime.utcnow() is  *)
(* the variable now; it never goes backward.  Every separate call of       *)
(* utcnow() in the source is a separate reading of the clock: time may     *)
(* pass between two readings inside one call of run().                     *)
(***************************************************************************)
EXTENDS Integers, Sequences, FiniteSets, TLC

\* ---- bounds of the model ----
MaxTime == 4
MaxPeriod == 2
MaxDelay == 1
MaxListTime == 3
MaxThreads == 2
MaxWorkerTime == 3

\* ---- program constants (in ticks of 20 minutes) ----
LOG_WARNING_PERIOD == 3
LOG_UPLOAD_PERIOD == 3

Ops == {1, 2, 3}
Periods == 1..MaxPeriod
Delays == 0..MaxDelay
Errors == {"e1", "e2"}
Outcomes == {"ok"} \cup Errors

\* Python's None, for a time and for a warning text
None == -1
NoWarning == <<>>

VARIABLES
    now,        \* datetime.datetime.utcnow()
    op,         \* the fields of one PeriodicOperation (specification Spec)
    lastRun,    \* history: the time of the last call of run() on op that invoked the operation
    lastWarn,   \* history: the time of the call of run() on op that logged the last warning
    call,       \* history: the last call of run() on op
    ops,        \* ops[i]: the fields of the i-th PeriodicOperation of a list (specification SpecSched)
    last,       \* history: the last call of run() or of sleep_until_next_operation() on the list
    loop,       \* where the loop of the host that drives the list is (specification SpecLoop)
    should_run,             \* LogUploadHandler.should_run
    last_log_upload_time,   \* LogUploadHandler.last_log_upload_time: <<>> is None, <<t>> the time t
    protocol,               \* LogUploadHandler.protocol: "None" or "set"
    thread,                 \* LogUploadHandler.thread: 0 is None, else the index of a thread in threads
    threads,                \* the threads created by start(), in order of creation
    caller,                 \* where the thread that calls run(), start() and stop() is
    stopped                 \* history: what the calls of stop() have seen

workerVars == <<should_run, last_log_upload_time, protocol, thread, threads, caller, stopped>>
vars == <<now, op, lastRun, lastWarn, call, ops, last, loop, should_run, last_log_upload_time, protocol, thread, threads, caller, stopped>>
opVars == <<op, lastRun, lastWarn, call>>
listVars == <<ops, last, loop>>

NoCall == [at |-> None, due |-> FALSE, invoked |-> FALSE, outcome |-> "ok",
           finished |-> None, handled |-> None, emitted |-> FALSE, raised |-> FALSE,
           warning |-> NoWarning,
           before |-> [period |-> 0, next_run_time |-> None, last_warning |-> NoWarning, last_warning_time |-> None],
           prevRun |-> None, prevWarn |-> None,
           logged |-> None, quiet |-> FALSE, wasQuiet |-> FALSE]
NoLast == [kind |-> "none"]
NoLoop == [at |-> "idle", next |-> 1, attempts |-> 0, attemptAt |-> None, gap |-> None]

\* PeriodicOperation.__init__(name, operation, period), called at time t
NewOperation(period, t) ==
    [period |-> period, next_run_time |-> t, last_warning |-> NoWarning, last_warning_time |-> None]

\* the text built on line 69 from the name and ustr(e)
Warning(name, e) == <<"Failed to", name, e>>

IsDue_Always(o, t) == TRUE

IsDue_Strict(o, t) == o.next_run_time < t

\* the condition of line 62
IsDue(o, t) == o.next_run_time <= t

NextRunTime_NoPeriod(t, period) == t

\* the right-hand side of line 66
NextRunTime(t, period) == t + period

AfterOperation_OnlyOnSuccess(o, outcome, t) ==
    IF outcome = "ok" THEN [o EXCEPT !.next_run_time = t + o.period] ELSE o

\* the try/finally of lines 63-66: the assignment is made whether or not the operation raised
AfterOperation(o, outcome, t) == [o EXCEPT !.next_run_time = NextRunTime(t, o.period)]

Catches_Nothing(outcome) == FALSE

\* "except Exception" of line 67: every error of the model is an Exception
Catches(outcome) == outcome \in Errors

ShouldWarn_NoCooldown(o, warning, t) ==
    \/ warning # o.last_warning
    \/ o.last_warning_time = None

ShouldWarn_IgnoresMessage(o, warning, t) ==
    \/ o.last_warning_time = None
    \/ t >= o.last_warning_time + LOG_WARNING_PERIOD

\* the condition of line 70
ShouldWarn(o, warning, t) ==
    \/ warning # o.last_warning
    \/ o.last_warning_time = None
    \/ t >= o.last_warning_time + LOG_WARNING_PERIOD

\* lines 71-73
RecordWarning(o, warning, t) == [o EXCEPT !.last_warning_time = t, !.last_warning = warning]

\* lines 88-92 for one task: the time from t until o is due, none when it is due
TimeUntilDue(o, t) == IF o.next_run_time - t > 0 THEN o.next_run_time - t ELSE 0

\* PeriodicOperation.run() called at time t1 on the object o named name.
\* outcome is what self._operation() does; dOp is the time it takes (between
\* the clock readings of lines 62 and 66), dExc the time between the readings
\* of lines 66 and 70, dLog the time logger.warn takes (between the readings
\* of lines 70 and 72).  The result holds the object after the call, the time
\* at which the call ends and what happened in it.
AfterWarning_AlwaysRecorded(o, emit, warning, t) == RecordWarning(o, warning, t)

\* lines 70-73: only a warning that is logged is remembered
AfterWarning(o, emit, warning, t) == IF emit THEN RecordWarning(o, warning, t) ELSE o

RunResult(o, name, t1, outcome, dOp, dExc, dLog) ==
    LET due == IsDue(o, t1)
        t2 == t1 + dOp
        o2 == AfterOperation(o, outcome, t2)
        failed == due /\ outcome # "ok"
        caught == failed /\ Catches(outcome)
        warning == Warning(name, outcome)
        t3 == t2 + dExc
        emit == caught /\ ShouldWarn(o2, warning, t3)
        t4 == t3 + dLog
    IN  [o |-> IF ~due THEN o ELSE IF caught THEN AfterWarning(o2, emit, warning, t4) ELSE o2,
         end |-> IF ~due THEN t1 ELSE IF ~caught THEN t2 ELSE IF ~emit THEN t3 ELSE t4,
         due |-> due, invoked |-> due, failed |-> failed, caught |-> caught,
         raised |-> failed /\ ~caught, emitted |-> emit,
         finished |-> IF due THEN t2 ELSE None,
         handled |-> IF caught THEN t3 ELSE None,
         logged |-> IF emit THEN t4 ELSE None,
         warning |-> IF failed THEN warning ELSE NoWarning,
         used |-> <<IF due THEN dOp ELSE 0, IF caught THEN dExc ELSE 0, IF emit THEN dLog ELSE 0>>]

\* one task, just constructed with some period
InitOp ==
    /\ op \in {NewOperation(p, 0) : p \in Periods}
    /\ lastRun = None
    /\ lastWarn = None
    /\ call = NoCall

\* a list of tasks, just constructed with some periods
InitList ==
    /\ ops \in [Ops -> {NewOperation(p, 0) : p \in Periods}]
    /\ last = NoLast
    /\ loop = NoLoop

\* what the variables of the parts a specification leaves alone hold
IdleOp ==
    /\ op = NewOperation(1, 0)
    /\ lastRun = None
    /\ lastWarn = None
    /\ call = NoCall

IdleList ==
    /\ ops = [i \in Ops |-> NewOperation(1, 0)]
    /\ last = NoLast
    /\ loop = NoLoop

\* LogUploadHandler.__init__
InitHandler ==
    /\ last_log_upload_time = <<>>
    /\ protocol = "None"
    /\ thread = 0
    /\ should_run = TRUE
    /\ threads = <<>>
    /\ caller = "idle"
    /\ stopped = [called |-> FALSE, joined |-> FALSE, returned |-> FALSE, inCycle |-> FALSE, overlap |-> FALSE]

Init ==
    /\ now = 0
    /\ InitOp
    /\ IdleList
    /\ InitHandler

\* time passes while the caller does something else
Tick ==
    /\ now < MaxTime
    /\ now' = now + 1
    /\ UNCHANGED <<opVars, listVars, workerVars>>

\* a call of run() on the single task
Run(outcome, dOp, dExc, dLog) ==
    LET r == RunResult(op, "op", now, outcome, dOp, dExc, dLog)
    IN  /\ r.end <= MaxTime
        /\ r.used = <<dOp, dExc, dLog>>
        /\ now' = r.end
        /\ op' = r.o
        /\ lastRun' = IF r.invoked THEN now ELSE lastRun
        /\ lastWarn' = IF r.emitted THEN now ELSE lastWarn
        /\ call' = [at |-> now, due |-> r.due, invoked |-> r.invoked,
                    outcome |-> IF r.invoked THEN outcome ELSE "ok",
                    finished |-> r.finished, handled |-> r.handled,
                    emitted |-> r.emitted, raised |-> r.raised, warning |-> r.warning,
                    before |-> op, prevRun |-> lastRun, prevWarn |-> lastWarn,
                    logged |-> IF r.emitted THEN r.logged ELSE call.logged,
                    quiet |-> IF r.emitted THEN FALSE ELSE IF r.caught THEN TRUE ELSE call.quiet,
                    wasQuiet |-> call.quiet]
        /\ UNCHANGED <<listVars, workerVars>>

Next ==
    \/ Tick
    \/ \E outcome \in Outcomes, dOp \in Delays, dExc \in Delays, dLog \in Delays :
          Run(outcome, dOp, dExc, dLog)

Spec == Init /\ [][Next]_vars

\* ---------------------------------------------------------------------
\* A list of tasks and sleep_until_next_operation (specification SpecSched)
\* ---------------------------------------------------------------------

MinOf(T) == CHOOSE x \in T : \A y \in T : x <= y

MaxOf(T) == CHOOSE x \in T : \A y \in T : x >= y

NextOperationTime_Latest(S, os) == MaxOf({os[i].next_run_time : i \in S})

\* line 86 for a non-empty list S of tasks
NextOperationTime(S, os) == MinOf({os[i].next_run_time : i \in S})

\* lines 88-90
SleepSeconds(S, os, t) == NextOperationTime(S, os) - t

\* what the operation of task i does on every call: the first task of the
\* list always raises, the others always return
Operation(i) == IF i = 1 THEN "e1" ELSE "ok"

\* a call of run() on task i of the list; the operation takes the time dOp
RunOp(i, dOp) ==
    LET r == RunResult(ops[i], i, now, Operation(i), dOp, 0, 0)
    IN  /\ r.end <= MaxListTime
        /\ r.used = <<dOp, 0, 0>>
        /\ now' = r.end
        /\ ops' = [ops EXCEPT ![i] = r.o]
        /\ last' = [kind |-> "run", op |-> i, at |-> now, next_run_time |-> ops[i].next_run_time,
                    invoked |-> r.invoked, failed |-> r.failed, raised |-> r.raised]
        /\ UNCHANGED <<opVars, workerVars>>

\* PeriodicOperation.sleep_until_next_operation(operations) with the tasks S.
\* min() of an empty list raises ValueError (line 86).  time.sleep() returns
\* after sleep_seconds or later: over is the extra time.
SleepUntilNextOperation(S, over) ==
    LET raises == S = {}
        seconds == IF raises THEN 0 ELSE SleepSeconds(S, ops, now)
        sleeps == ~raises /\ seconds > 0
        woke == IF sleeps THEN now + seconds + over ELSE now
    IN  /\ woke <= MaxListTime
        /\ ~sleeps => over = 0
        /\ now' = woke
        /\ last' = [kind |-> "sleep", operations |-> S, at |-> now,
                    until |-> [i \in S |-> ops[i].next_run_time - now],
                    seconds |-> IF sleeps THEN seconds ELSE 0,
                    raised |-> raises, woke |-> woke]
        /\ UNCHANGED <<ops, opVars, workerVars>>

TickList ==
    /\ now < MaxListTime
    /\ now' = now + 1
    /\ UNCHANGED <<opVars, listVars, workerVars>>

InitSched ==
    /\ now = 0
    /\ IdleOp
    /\ InitList
    /\ InitHandler

NextSched ==
    \/ TickList
    \/ \E i \in Ops, dOp \in Delays : RunOp(i, dOp) /\ UNCHANGED loop
    \/ \E S \in SUBSET Ops, over \in Delays : SleepUntilNextOperation(S, over) /\ UNCHANGED loop

SpecSched == InitSched /\ [][NextSched]_vars

\* ---------------------------------------------------------------------
\* The loop of the host that drives a list of tasks (specification
\* SpecLoop): it calls sleep_until_next_operation on the list, then run()
\* on every task of the list in turn, and starts again.  An exception that
\* leaves run() or sleep_until_next_operation ends the loop.
\* ---------------------------------------------------------------------

\* the loop calls run() on the next task of the list
LoopRun(dOp) ==
    LET i == loop.next
        attempt == i = 1 /\ last'.invoked
    IN  /\ loop.at = "run"
        /\ RunOp(i, dOp)
        /\ loop' = [at |-> IF last'.raised THEN "crashed" ELSE IF i = MaxOf(Ops) THEN "sleep" ELSE "run",
                    next |-> IF i = MaxOf(Ops) THEN 1 ELSE i + 1,
                    attempts |-> IF attempt THEN loop.attempts + 1 ELSE loop.attempts,
                    attemptAt |-> IF attempt THEN now ELSE loop.attemptAt,
                    gap |-> IF attempt /\ loop.attemptAt # None THEN now - loop.attemptAt ELSE loop.gap]

\* the loop calls sleep_until_next_operation on the whole list
LoopSleep(over) ==
    /\ loop.at = "sleep"
    /\ SleepUntilNextOperation(Ops, over)
    /\ loop' = [loop EXCEPT !.at = IF last'.raised THEN "crashed" ELSE "run"]

InitLoop ==
    /\ now = 0
    /\ IdleOp
    /\ ops \in [Ops -> {NewOperation(p, 0) : p \in Periods}]
    /\ last = NoLast
    /\ loop = [NoLoop EXCEPT !.at = "sleep"]
    /\ InitHandler

NextLoop ==
    \/ \E dOp \in Delays : LoopRun(dOp)
    \/ \E over \in Delays : LoopSleep(over)

\* the loop is single-threaded and goes on as long as it can
SpecLoop == InitLoop /\ [][NextLoop]_vars /\ WF_vars(NextLoop)

\* ---------------------------------------------------------------------
\* LogUploadHandler: the caller of run(), start() and stop() and the threads
\* that execute daemon() (specification SpecWorker)
\* ---------------------------------------------------------------------

\* threading.Thread.is_alive(): from start() until daemon() has returned or raised
ThreadAlive(t) == t.pc # "dead"

IsAlive_Never(th, ts) == FALSE

\* LogUploadHandler.is_alive()
IsAlive(th, ts) == th # 0 /\ ThreadAlive(ts[th])

\* a thread is inside the body of the loop of daemon(), before its sleep
InCycle(t) == t.pc \in {"try", "refresh", "collect", "upload", "settime"}

\* the condition of line 79
UploadDue(since, t) == t >= since + LOG_UPLOAD_PERIOD

\* what a thread has done in its latest iteration of the loop of daemon():
\* the result of the due check, of the three steps ("none" when the step did
\* not run), the events given to add_event, the time line 82 wrote, if it
\* ran, and the time it wrote in the iteration before when that one
\* collected and uploaded
NoCycle == [checked |-> FALSE, due |-> FALSE, refresh |-> "none", collect |-> "none", upload |-> "none",
            success |-> 0, failure |-> 0, advanced |-> FALSE, setAt |-> None, prevSetAt |-> None]

\* a cycle that collected the logs and uploaded them
Uploaded(c) == c.collect = "ok" /\ c.upload = "ok"

\* the history of a new iteration, after the due check
NewCycle(c, due) ==
    [NoCycle EXCEPT !.checked = TRUE, !.due = due,
                    !.prevSetAt = IF Uploaded(c) /\ c.advanced THEN c.setAt ELSE None]

\* a thread created by start() after stop() was called (late) or before
NewThread(init_data, late) ==
    [pc |-> "started", init_data |-> init_data, wakeAt |-> 0, late |-> late, cyc |-> NoCycle]

\* a thread whose daemon() has returned or raised
DeadThread(t) == [NewThread(FALSE, t.late) EXCEPT !.pc = "dead"]

ToSleep_NoSleep(t) == [t EXCEPT !.pc = "sleeping", !.wakeAt = now]

\* the thread goes to line 87: time.sleep(LOG_UPLOAD_PERIOD.seconds)
ToSleep(t) == [t EXCEPT !.pc = "sleeping", !.wakeAt = now + LOG_UPLOAD_PERIOD]

AfterRaise_Dies(t) == DeadThread(t)

\* lines 83-87: an exception raised in the try block is caught and logged,
\* and the iteration goes on to its sleep
AfterRaise(t) == ToSleep(t)

LoopContinues_Always(flag) == TRUE

\* the condition of line 74
LoopContinues(flag) == flag

StopFlag_StaysTrue == TRUE

\* the value line 50 gives to should_run
StopFlag == FALSE

\* the right-hand side of line 77
FirstUploadTime(t) == t - LOG_UPLOAD_PERIOD

RefreshStep_GoesOn(t, ok) ==
    [t EXCEPT !.pc = "collect", !.cyc.refresh = IF ok THEN "ok" ELSE "fail"]

\* line 80: when the refresh raises, lines 81-82 are skipped
RefreshStep(t, ok) ==
    IF ok THEN [t EXCEPT !.pc = "collect", !.cyc.refresh = "ok"]
    ELSE AfterRaise([t EXCEPT !.cyc.refresh = "fail"])

CollectStep_UploadsAnyway(t, ok) ==
    IF ok THEN [t EXCEPT !.pc = "upload", !.cyc.collect = "ok", !.cyc.success = @ + 1]
    ELSE [t EXCEPT !.pc = "upload", !.cyc.collect = "fail", !.cyc.failure = @ + 1]

\* lines 90-120: a success event when the archive was made; when collecting
\* raises, a failure event and the return of line 120, which skips line 122
CollectStep(t, ok) ==
    IF ok THEN [t EXCEPT !.pc = "upload", !.cyc.collect = "ok", !.cyc.success = @ + 1]
    ELSE [t EXCEPT !.pc = "settime", !.cyc.collect = "fail", !.cyc.failure = @ + 1]

UploadStep_SkipsLine82(t, ok) ==
    AfterRaise([t EXCEPT !.cyc.upload = IF ok THEN "ok" ELSE "fail"])

UploadStep_AdvancesAnyway(t, ok) ==
    [t EXCEPT !.pc = "settime", !.cyc.upload = IF ok THEN "ok" ELSE "fail"]

\* line 122: when put_vm_logs raises, line 82 is skipped
UploadStep(t, ok) ==
    IF ok THEN [t EXCEPT !.pc = "settime", !.cyc.upload = "ok"]
    ELSE AfterRaise([t EXCEPT !.cyc.upload = "fail"])

\* LogUploadHandler.start(init_data): a new thread replaces self.thread.
\* A second or later thread is made only inside the time MaxWorkerTime.
StartThread(init_data) ==
    /\ caller = "idle"
    /\ Len(threads) < MaxThreads
    /\ Len(threads) >= 1 => now <= MaxWorkerTime
    /\ threads' = Append(threads, NewThread(init_data, stopped.called))
    /\ thread' = Len(threads) + 1
    /\ stopped' = [stopped EXCEPT !.overlap = @ \/ \E i \in DOMAIN threads : ThreadAlive(threads[i])]
    /\ UNCHANGED <<now, should_run, last_log_upload_time, protocol, caller, opVars, listVars>>

\* LogUploadHandler.start(init_data=False)
HandlerStart == StartThread(FALSE)

\* LogUploadHandler.run()
HandlerRun == StartThread(TRUE)

\* LogUploadHandler.stop(), line 50
StopBegin ==
    /\ caller = "idle"
    /\ should_run' = StopFlag
    /\ caller' = "stop_is_alive"
    /\ stopped' = [stopped EXCEPT !.called = TRUE,
                                  !.inCycle = @ \/ \E i \in DOMAIN threads : InCycle(threads[i])]
    /\ UNCHANGED <<now, last_log_upload_time, protocol, thread, threads, opVars, listVars>>

\* LogUploadHandler.stop(), line 51: join only a thread that is alive
StopIsAlive ==
    /\ caller = "stop_is_alive"
    /\ IF IsAlive(thread, threads)
       THEN caller' = "stop_join" /\ stopped' = [stopped EXCEPT !.joined = TRUE]
       ELSE caller' = "idle" /\ stopped' = [stopped EXCEPT !.returned = TRUE]
    /\ UNCHANGED <<now, should_run, last_log_upload_time, protocol, thread, threads, opVars, listVars>>

\* LogUploadHandler.stop(), line 52: join() returns when self.thread has ended
StopJoin ==
    /\ caller = "stop_join"
    /\ ~ThreadAlive(threads[thread])
    /\ caller' = "idle"
    /\ stopped' = [stopped EXCEPT !.returned = TRUE]
    /\ UNCHANGED <<now, should_run, last_log_upload_time, protocol, thread, threads, opVars, listVars>>

\* daemon(), lines 71-72: init_protocols() sets self.protocol or raises, and
\* an exception raised here ends the thread
DaemonInit(i, ok) ==
    /\ i \in DOMAIN threads
    /\ threads[i].pc = "started"
    /\ ~threads[i].init_data => ok
    /\ protocol' = IF threads[i].init_data /\ ok THEN "set" ELSE protocol
    /\ threads' = [threads EXCEPT ![i] = IF ok THEN [@ EXCEPT !.pc = "loop", !.init_data = FALSE]
                                         ELSE DeadThread(@)]
    /\ UNCHANGED <<now, should_run, last_log_upload_time, thread, caller, stopped, opVars, listVars>>

\* daemon(), line 74: while self.should_run.  A new iteration starts only
\* inside the time the model covers.
DaemonLoop(i) ==
    /\ i \in DOMAIN threads
    /\ threads[i].pc = "loop"
    /\ LoopContinues(should_run) => now <= MaxWorkerTime + 1
    /\ threads' = [threads EXCEPT ![i] = IF LoopContinues(should_run)
                                         THEN [@ EXCEPT !.pc = "try"]
                                         ELSE DeadThread(@)]
    /\ UNCHANGED <<now, should_run, last_log_upload_time, protocol, thread, caller, stopped, opVars, listVars>>

\* daemon(), lines 76-79: the first time, last_log_upload_time is set one
\* period back; then the due check
DaemonDueCheck(i) ==
    LET t0 == IF last_log_upload_time = <<>> THEN FirstUploadTime(now) ELSE last_log_upload_time[1]
        due == UploadDue(t0, now)
        t == [threads[i] EXCEPT !.cyc = NewCycle(@, due)]
    IN  /\ i \in DOMAIN threads
        /\ threads[i].pc = "try"
        /\ last_log_upload_time' = <<t0>>
        /\ threads' = [threads EXCEPT ![i] = IF due THEN [t EXCEPT !.pc = "refresh"] ELSE ToSleep(t)]
        /\ UNCHANGED <<now, should_run, protocol, thread, caller, stopped, opVars, listVars>>

\* daemon(), line 80: self.protocol.update_host_plugin_from_goal_state();
\* it raises when self.protocol is None or when the refresh fails, and
\* line 83 catches it
DaemonRefresh(i, ok) ==
    /\ i \in DOMAIN threads
    /\ threads[i].pc = "refresh"
    /\ protocol = "None" => ~ok
    /\ threads' = [threads EXCEPT ![i] = RefreshStep(@, ok)]
    /\ UNCHANGED <<now, should_run, last_log_upload_time, protocol, thread, caller, stopped, opVars, listVars>>

\* collect_and_upload_logs(), lines 90-120: a failure of the collection is
\* caught there and the method returns without uploading
DaemonCollect(i, ok) ==
    /\ i \in DOMAIN threads
    /\ threads[i].pc = "collect"
    /\ threads' = [threads EXCEPT ![i] = CollectStep(@, ok)]
    /\ UNCHANGED <<now, should_run, last_log_upload_time, protocol, thread, caller, stopped, opVars, listVars>>

\* collect_and_upload_logs(), line 122: self.protocol.put_vm_logs(); an
\* exception goes to line 83
DaemonUpload(i, ok) ==
    /\ i \in DOMAIN threads
    /\ threads[i].pc = "upload"
    /\ threads' = [threads EXCEPT ![i] = UploadStep(@, ok)]
    /\ UNCHANGED <<now, should_run, last_log_upload_time, protocol, thread, caller, stopped, opVars, listVars>>

\* daemon(), line 82, then the sleep of line 87
DaemonSetTime(i) ==
    /\ i \in DOMAIN threads
    /\ threads[i].pc = "settime"
    /\ last_log_upload_time' = <<now>>
    /\ threads' = [threads EXCEPT ![i] = ToSleep([@ EXCEPT !.cyc.advanced = TRUE, !.cyc.setAt = now])]
    /\ UNCHANGED <<now, should_run, protocol, thread, caller, stopped, opVars, listVars>>

\* daemon(), line 87: time.sleep() returns after LOG_UPLOAD_PERIOD.seconds or
\* later
DaemonWake(i) ==
    /\ i \in DOMAIN threads
    /\ threads[i].pc = "sleeping"
    /\ now >= threads[i].wakeAt
    /\ threads' = [threads EXCEPT ![i] = [@ EXCEPT !.pc = "loop", !.wakeAt = 0]]
    /\ UNCHANGED <<now, should_run, last_log_upload_time, protocol, thread, caller, stopped, opVars, listVars>>

\* the time the behaviours of the handler cover: one tick more while the
\* handler has made at most one thread
WorkerHorizon == IF Len(threads) <= 1 THEN MaxWorkerTime + 1 ELSE MaxWorkerTime

TickWorker ==
    /\ now < WorkerHorizon
    /\ now' = now + 1
    /\ UNCHANGED <<opVars, listVars, workerVars>>

InitWorker ==
    /\ now = 0
    /\ IdleOp
    /\ IdleList
    /\ InitHandler

NextWorker ==
    \/ TickWorker
    \/ HandlerStart
    \/ HandlerRun
    \/ StopBegin
    \/ StopIsAlive
    \/ StopJoin
    \/ \E i \in 1..MaxThreads :
          \/ \E ok \in BOOLEAN : DaemonInit(i, ok)
          \/ DaemonLoop(i)
          \/ DaemonDueCheck(i)
          \/ \E ok \in BOOLEAN : DaemonRefresh(i, ok)
          \/ \E ok \in BOOLEAN : DaemonCollect(i, ok)
          \/ \E ok \in BOOLEAN : DaemonUpload(i, ok)
          \/ DaemonSetTime(i)
          \/ DaemonWake(i)

SpecWorker == InitWorker /\ [][NextWorker]_vars

\* ---------------------------------------------------------------------
\* A handler started once, when its thread is scheduled again and again,
\* every step and every sleep ends, and the caller goes on inside stop()

\* the caller starts the worker, once
FirstStart == Len(threads) = 0 /\ HandlerStart

FirstRun == Len(threads) = 0 /\ HandlerRun

\* after stop() time goes on past the horizon while the thread sleeps, so
\* that the sleep of line 87 ends
TickSleepers ==
    /\ now >= WorkerHorizon
    /\ ~should_run
    /\ \E i \in DOMAIN threads : threads[i].pc = "sleeping" /\ threads[i].wakeAt > now
    /\ now' = now + 1
    /\ UNCHANGED <<opVars, listVars, workerVars>>

\* the next step of thread i, whatever its outcome
DaemonStep(i) ==
    \/ \E ok \in BOOLEAN : DaemonInit(i, ok)
    \/ DaemonLoop(i)
    \/ DaemonDueCheck(i)
    \/ \E ok \in BOOLEAN : DaemonRefresh(i, ok)
    \/ \E ok \in BOOLEAN : DaemonCollect(i, ok)
    \/ \E ok \in BOOLEAN : DaemonUpload(i, ok)
    \/ DaemonSetTime(i)
    \/ DaemonWake(i)

NextWorkerFair ==
    \/ TickWorker
    \/ TickSleepers
    \/ FirstStart
    \/ FirstRun
    \/ StopBegin
    \/ StopIsAlive
    \/ StopJoin
    \/ DaemonStep(1)

FairWorker ==
    /\ WF_vars(TickWorker \/ TickSleepers)
    /\ WF_vars(StopIsAlive)
    /\ WF_vars(StopJoin)
    /\ WF_vars(DaemonStep(1))

SpecWorkerFair == InitWorker /\ [][NextWorkerFair]_vars /\ FairWorker

\* ---------------------------------------------------------------------
\* Claims about one PeriodicOperation (specification Spec)
\* ---------------------------------------------------------------------

\* C1 as stated: after a call of run() made at time call.at that invoked the
\* operation, the next due time is call.at + period.
C1_NextDueIsCallTimePlusPeriod ==
    call.invoked => op.next_run_time = call.at + op.period

\* C1 amended: after a call of run() that invoked the operation, the next due
\* time is T + period, T being the clock reading taken when the operation has
\* finished (line 66, never before the time of the call), whether the
\* operation returned normally or raised.
C1_NextDueIsFinishTimePlusPeriod ==
    call.invoked =>
        /\ op.next_run_time = call.finished + op.period
        /\ call.finished >= call.at

C1_Witness ==
    /\ call.invoked
    /\ call.outcome \in Errors
    /\ call.finished > call.at

\* C2: a call of run() made strictly before the next due time does not
\* invoke the operation and leaves next due time, last warning and last
\* warning time as they were.
C2_NotDueIsNoOp ==
    (call.at # None /\ call.at < call.before.next_run_time) =>
        /\ ~call.invoked
        /\ op = call.before
        /\ lastRun = call.prevRun

C2_Witness ==
    /\ call.at # None
    /\ call.at < call.before.next_run_time
    /\ call.before.last_warning # NoWarning

\* C3: two consecutive invocations of the operation are at least one period
\* apart, and never at the same time: of two calls of run() with no time
\* between them at most one invokes the operation.
C3_InvocationsOnePeriodApart ==
    (call.invoked /\ call.prevRun # None) =>
        /\ call.at >= call.prevRun + op.period
        /\ call.at > call.prevRun

C3_Witness ==
    /\ call.invoked
    /\ call.prevRun # None
    /\ call.at = call.prevRun + op.period

\* C5: while run() has never invoked the operation the time until due is
\* zero, and the first call of run() invokes the operation.
C5_FirstRunIsDue ==
    /\ lastRun = None => TimeUntilDue(op, now) = 0
    /\ (call.at # None /\ call.prevRun = None) => call.invoked

C5_Witness ==
    /\ call.at = 0
    /\ call.prevRun = None
    /\ call.invoked

\* C6 as stated: when a failure logged a warning and a later call of run(),
\* made less than the cooldown after the call that logged it, fails with the
\* identical message, no second warning is logged.
C6_OneWarningForCallsInsideCooldown ==
    ( /\ call.warning # NoWarning
      /\ call.warning = call.before.last_warning
      /\ call.prevWarn # None
      /\ call.at - call.prevWarn < LOG_WARNING_PERIOD ) => ~call.emitted

\* C6 amended: the cooldown runs from the time recorded for the last logged
\* warning (line 72) to the clock reading of the except clause (line 70) of
\* the later failure: a failure with the identical message logs no warning
\* when that reading is less than the cooldown after the recorded time, and
\* logs one when the cooldown has elapsed.
C6_OneWarningInsideCooldown ==
    ( /\ call.warning # NoWarning
      /\ call.warning = call.before.last_warning ) =>
        /\ call.handled < call.before.last_warning_time + LOG_WARNING_PERIOD => ~call.emitted
        /\ call.handled >= call.before.last_warning_time + LOG_WARNING_PERIOD => call.emitted

C6_Witness ==
    /\ call.warning # NoWarning
    /\ call.warning = call.before.last_warning
    /\ call.handled >= call.before.last_warning_time + LOG_WARNING_PERIOD
    /\ call.emitted
    /\ op.last_warning_time > call.before.last_warning_time

\* C7: a failed operation logs its warning exactly when the message differs
\* from the last logged one, or no warning was logged yet, or the cooldown
\* has elapsed since the last logged warning; a logged warning is recorded.
C7_WarnIffNewOrCooldownOver ==
    call.warning # NoWarning =>
        /\ call.emitted <=>
              \/ call.warning # call.before.last_warning
              \/ call.before.last_warning_time = None
              \/ call.handled >= call.before.last_warning_time + LOG_WARNING_PERIOD
        /\ call.emitted => op.last_warning = call.warning

C7_Witness ==
    /\ call.warning # NoWarning
    /\ call.before.last_warning # NoWarning
    /\ call.warning # call.before.last_warning
    /\ call.handled < call.before.last_warning_time + LOG_WARNING_PERIOD
    /\ call.emitted

\* ---------------------------------------------------------------------
\* Claims about a list of tasks (specification SpecSched)
\* ---------------------------------------------------------------------

Clamp(d) == IF d > 0 THEN d ELSE 0

\* C4: no call of run() raises to its caller, also when the operation
\* raises; so a task that was due when run() was called on it was invoked,
\* whatever the failing task of the list did before.
C4_RunNeverRaises ==
    last.kind = "run" =>
        /\ ~last.raised
        /\ last.next_run_time <= last.at => last.invoked

C4_Witness ==
    /\ last.kind = "run"
    /\ last.op # 1
    /\ last.at > 0
    /\ last.invoked
    /\ ops[1].last_warning = Warning(1, Operation(1))
    /\ ops[1].next_run_time > ops[1].period

\* C8: for a non-empty list, sleep_until_next_operation sleeps for the
\* minimum over the tasks of the time until each is due, clamped at zero,
\* does not raise, and on return at least one task of the list is due.
C8_SleepsUntilEarliestTask ==
    (last.kind = "sleep" /\ last.operations # {}) =>
        /\ ~last.raised
        /\ \A i \in last.operations : last.seconds <= Clamp(last.until[i])
        /\ \E i \in last.operations : last.seconds = Clamp(last.until[i])
        /\ last.woke >= last.at + last.seconds
        /\ last.seconds = 0 => last.woke = last.at
        /\ \E i \in last.operations : ops[i].next_run_time <= now

C8_Witness ==
    /\ last.kind = "sleep"
    /\ last.operations = Ops
    /\ last.seconds > 0
    /\ \E i \in Ops : last.until[i] > last.seconds

\* C9 as stated: called with an empty list, sleep_until_next_operation
\* returns at once and raises nothing.
C9_EmptyListReturnsAtOnce ==
    (last.kind = "sleep" /\ last.operations = {}) =>
        /\ ~last.raised
        /\ last.woke = last.at

\* ---------------------------------------------------------------------
\* Claims about LogUploadHandler (specification SpecWorker)
\* ---------------------------------------------------------------------

C11_DueCycleAlwaysAdvances ==
    \A i \in DOMAIN threads :
        (threads[i].pc = "sleeping" /\ threads[i].cyc.due) => threads[i].cyc.advanced

\* C11, amended: a due iteration writes the current time to
\* last_log_upload_time exactly when neither the refresh nor the upload
\* raised, a failed collection included; when the refresh or the upload
\* raises, line 82 is skipped and last_log_upload_time keeps the value the
\* due check saw, at least a period old.
C11_AdvancesUnlessRefreshOrUploadRaises ==
    \A i \in DOMAIN threads :
        LET t == threads[i]
            c == threads[i].cyc
        IN  (t.pc = "sleeping" /\ c.due) =>
               /\ c.advanced <=> (c.refresh = "ok" /\ c.upload # "fail")
               /\ c.advanced => /\ c.setAt = t.wakeAt - LOG_UPLOAD_PERIOD
                                /\ last_log_upload_time # <<>>
                                /\ last_log_upload_time[1] >= c.setAt
                                /\ Len(threads) = 1 => last_log_upload_time = <<c.setAt>>
               /\ (~c.advanced /\ Len(threads) = 1) =>
                      last_log_upload_time[1] + LOG_UPLOAD_PERIOD <= t.wakeAt - LOG_UPLOAD_PERIOD

C11_Witness ==
    \E i \in DOMAIN threads :
        /\ threads[i].pc = "sleeping"
        /\ threads[i].cyc.collect = "fail"
        /\ last_log_upload_time = <<threads[i].cyc.setAt>>
        /\ threads[i].cyc.setAt > 0

\* C12: a cycle whose collection fails emits exactly one failure event and
\* no success event and never reaches put_vm_logs; the iteration after it is
\* due and attempted like any other.
C12_CollectFailureSkipsUpload ==
    \A i \in DOMAIN threads :
        LET t == threads[i]
            c == threads[i].cyc
        IN  /\ c.collect = "fail" => /\ c.failure = 1
                                     /\ c.success = 0
                                     /\ c.upload = "none"
                                     /\ t.pc \in {"settime", "sleeping", "loop", "try"}
                                     /\ t.pc # "settime" => c.advanced
            /\ (c.collect = "fail" /\ t.pc = "try" /\ ~stopped.overlap) =>
                   UploadDue(last_log_upload_time[1], now)

C12_Witness ==
    \E i \in DOMAIN threads :
        /\ threads[i].cyc.collect = "fail"
        /\ threads[i].pc = "try"
        /\ last_log_upload_time[1] + LOG_UPLOAD_PERIOD = now

\* C13: an exception raised by the refresh or the upload, like a failure of
\* the collection, never ends the thread: the iteration goes on to its
\* sleep, the sleep leads back to the loop test, and with should_run true
\* the loop test starts another iteration.
C13_ExceptionNeverEndsLoop ==
    [][\A i \in DOMAIN threads :
          /\ InCycle(threads[i]) => threads'[i].pc \in {"try", "refresh", "collect", "upload", "settime", "sleeping"}
          /\ (threads[i].pc = "refresh" /\ threads'[i].cyc.refresh = "fail") => threads'[i].pc = "sleeping"
          /\ (threads[i].pc = "collect" /\ threads'[i].cyc.collect = "fail") => threads'[i].pc = "settime"
          /\ (threads[i].pc = "upload" /\ threads'[i].cyc.upload = "fail") => threads'[i].pc = "sleeping"
          /\ threads[i].pc = "sleeping" => threads'[i].pc \in {"sleeping", "loop"}
          /\ (threads[i].pc = "loop" /\ should_run) => threads'[i].pc \in {"loop", "try"}]_vars

C13_Witness ==
    \E i \in DOMAIN threads :
        /\ threads[i].cyc.refresh = "fail" \/ threads[i].cyc.upload = "fail"
        /\ threads[i].pc = "try"

\* C14 as stated: a cycle that collects and uploads emits one success event
\* and no failure event, and from one such cycle to the next the time
\* written to last_log_upload_time grows by exactly the period.
C14_AdvancesByExactlyThePeriod ==
    \A i \in DOMAIN threads :
        LET c == threads[i].cyc
        IN  (threads[i].pc = "sleeping" /\ Uploaded(c)) =>
               /\ c.success = 1 /\ c.failure = 0
               /\ c.prevSetAt # None => c.setAt = c.prevSetAt + LOG_UPLOAD_PERIOD

\* C14, amended: a cycle that collects and uploads emits one success event
\* and no failure event and writes the current time to
\* last_log_upload_time; from one such cycle of a thread to its next the
\* time written grows by at least the period: the period of the sleep plus
\* the time the cycle took and the time the sleep overran.
C14_AdvancesByAtLeastThePeriod ==
    \A i \in DOMAIN threads :
        LET c == threads[i].cyc
        IN  (threads[i].pc = "sleeping" /\ Uploaded(c)) =>
               /\ c.success = 1 /\ c.failure = 0
               /\ c.advanced
               /\ c.prevSetAt # None => c.setAt >= c.prevSetAt + LOG_UPLOAD_PERIOD

C14_Witness ==
    \E i \in DOMAIN threads :
        /\ threads[i].pc = "sleeping"
        /\ Uploaded(threads[i].cyc)
        /\ threads[i].cyc.prevSetAt # None
        /\ threads[i].cyc.setAt > threads[i].cyc.prevSetAt + LOG_UPLOAD_PERIOD

\* C15: inside a due iteration the refresh comes first, the collection
\* starts only after the refresh has returned without raising, and the
\* upload starts only after the collection of the same iteration succeeded.
C15_RefreshThenCollectThenUpload ==
    \A i \in DOMAIN threads :
        LET t == threads[i]
            c == threads[i].cyc
        IN  /\ t.pc = "refresh" => c.due /\ c.refresh = "none" /\ c.collect = "none" /\ c.upload = "none"
            /\ t.pc = "collect" => c.due /\ c.refresh = "ok" /\ c.collect = "none" /\ c.upload = "none"
            /\ t.pc = "upload" => c.due /\ c.refresh = "ok" /\ c.collect = "ok" /\ c.upload = "none"
            /\ c.collect # "none" => c.refresh = "ok"
            /\ c.upload # "none" => c.collect = "ok"

C15_Witness ==
    \E i \in DOMAIN threads :
        /\ threads[i].pc = "upload"
        /\ threads[i].cyc.success = 1

\* C16: stop() does not cut an iteration short, a thread ends only at the
\* loop test or in init_protocols, and when the thread is scheduled again
\* and again and its steps and sleeps end, a call of stop() returns, with
\* the thread ended.
C16_StopEventuallyReturns ==
    /\ [][\A i \in DOMAIN threads :
             (threads[i].pc # "dead" /\ threads'[i].pc = "dead") =>
                 \/ threads[i].pc = "started"
                 \/ threads[i].pc = "loop" /\ ~should_run]_vars
    /\ (caller # "idle") ~> (caller = "idle" /\ stopped.returned /\ ~IsAlive(thread, threads))

C16_Witness ==
    /\ stopped.inCycle
    /\ stopped.joined
    /\ stopped.returned
    /\ thread # 0
    /\ threads[thread].pc = "dead"

\* C19: once stop() has been called should_run is false for good, and a
\* thread made by a later start() or run() executes no iteration: it goes
\* from its start to the loop test and ends there.
C19_NoCycleInThreadStartedAfterStop ==
    /\ stopped.called => ~should_run
    /\ \A i \in DOMAIN threads :
          threads[i].late => /\ threads[i].pc \in {"started", "loop", "dead"}
                             /\ threads[i].cyc = NoCycle

C19_Witness ==
    \E i \in DOMAIN threads :
        /\ threads[i].late
        /\ threads[i].pc = "dead"
        /\ stopped.returned

C17_FailingTaskIsAttemptedAgain ==
    /\ [](loop.gap # None => loop.gap >= ops[1].period)
    /\ [](loop.at # "crashed")
    /\ \A k \in 0..(MaxListTime + 1) :
          (loop.attempts = k /\ ops[1].next_run_time <= MaxListTime) ~> (loop.attempts > k)

C17_Witness ==
    /\ loop.attempts >= 2
    /\ loop.gap = ops[1].period
    /\ ops[1].last_warning # NoWarning

\* C18: a failure whose warning is not logged leaves _last_warning and
\* _last_warning_time as they were, so that _last_warning_time is always
\* the time the last logged warning was logged; a failure with the text of
\* the last logged warning is logged again exactly when it is handled at
\* or after that time plus _LOG_WARNING_PERIOD, however many failures were
\* suppressed in between.
C18_SuppressedFailureKeepsCooldown ==
    /\ (call.warning # NoWarning /\ ~call.emitted) =>
           /\ op.last_warning = call.before.last_warning
           /\ op.last_warning_time = call.before.last_warning_time
    /\ op.last_warning_time = call.logged
    /\ (call.warning # NoWarning /\ ~call.raised /\ call.warning = call.before.last_warning) =>
           (call.emitted <=> call.handled >= call.before.last_warning_time + LOG_WARNING_PERIOD)

C18_Witness ==
    /\ call.emitted
    /\ call.wasQuiet
    /\ call.warning = call.before.last_warning
    /\ call.handled = call.before.last_warning_time + LOG_WARNING_PERIOD

====
